---- MODULE Spec2Model ----
(***************************************************************************)
(* A model of the FFXIV stat calculator (src/index.js): the Decimal        *)
(* arithmetic its formulas use, the catalog of statistics (StatList), the  *)
(* StatBlock edit handlers and Stat.derivedValues() with its two           *)
(* breakpoint searches, one loop iteration per step.                       *)
(*                                                                         *)
(* Statistic values are integers (parseInt results, changed by +1/-1).     *)
(* A derived value is a Decimal [m, x] standing for m * 10^(-x), kept      *)
(* normalised as decimal.js keeps it (no trailing fractional zeros).       *)
(* The model covers statistic values well inside the 20 significant digits *)
(* of decimal.js, where plus(1) and minus(1) are exact, and derived values *)
(* of magnitude in (1e-7, 1e21) or zero, which Decimal.valueOf() writes in *)
(* plain (non-exponential) notation; no value is a negative zero.          *)
(***************************************************************************)
EXTENDS Integers, Sequences, FiniteSets, TLC

VARIABLES
    mounted,          \* the Stat objects of the page, in StatList order (ids)
    currentValue,     \* stat id -> this.currentValue
    pc,               \* "idle" | "calc" | "lesser" | "greater": position of the redraw
    si,               \* index in mounted of the StatBlock being rendered
    di,               \* index of the derived value definition being mapped
    intermediates,    \* name -> realValue of the earlier definitions
    realValue,        \* realValue of the definition being mapped
    lesserBreakpoint, \* candidate of the first while loop
    greaterBreakpoint,\* candidate of the second while loop
    breaker,          \* loop counter
    out,              \* records produced so far by derivedValueDefns.map
    view,             \* stat id -> the list derivedValues() last returned, with the value it was computed at
    typed,            \* stat id -> value set by the last typed edit (statBase if none)
    incs,             \* stat id -> '+' clicks since the last typed edit
    decs,             \* stat id -> '-' clicks since the last typed edit
    lastEdit          \* the last edit event [kind, stat, text]

vars == <<mounted, currentValue, pc, si, di, intermediates, realValue,
          lesserBreakpoint, greaterBreakpoint, breaker, out, view,
          typed, incs, decs, lastEdit>>

----------------------------------------------------------------------------
(* Decimal arithmetic (decimal.js), as far as the program uses it. *)

RECURSIVE Pow10(_)
Pow10(k) == IF k = 0 THEN 1 ELSE 10 * Pow10(k - 1)

Abs(n) == IF n < 0 THEN -n ELSE n

\* Quotient rounded toward zero.
TruncDiv(a, b) == IF a >= 0 THEN a \div b ELSE -((-a) \div b)

RECURSIVE Norm(_)
Norm(d) ==
    IF d.x > 0 /\ d.m % 10 = 0 THEN Norm([m |-> d.m \div 10, x |-> d.x - 1]) ELSE d

\* new Decimal(n) for an integer n
Dec(n) == [m |-> n, x |-> 0]

Plus(a, b) ==
    LET x == IF a.x > b.x THEN a.x ELSE b.x
    IN  Norm([m |-> a.m * Pow10(x - a.x) + b.m * Pow10(x - b.x), x |-> x])

Minus(a, b) == Plus(a, [m |-> -b.m, x |-> b.x])

\* plus where times was meant
Times_AsPlus(a, b) == Plus(a, b)

Times(a, b) == Norm([m |-> a.m * b.m, x |-> a.x + b.x])

\* dividedBy(10^k): exact
DividedByPow10(a, k) == Norm([m |-> a.m, x |-> a.x + k])

\* floor(): ROUND_FLOOR, toward negative infinity
Floor(a) == Dec(a.m \div Pow10(a.x))

\* rounding away from zero instead of toward it
ToDecimalPlacesDown_Up(a, dp) ==
    IF a.x <= dp THEN a
    ELSE Norm([m |-> TruncDiv(a.m, Pow10(a.x - dp)) + (IF a.m < 0 THEN -1 ELSE 1), x |-> dp])

\* toDecimalPlaces(dp, Decimal.ROUND_DOWN): toward zero
ToDecimalPlacesDown(a, dp) ==
    IF a.x <= dp THEN a
    ELSE Norm([m |-> TruncDiv(a.m, Pow10(a.x - dp)), x |-> dp])

\* greaterThan where greaterThanOrEqualTo was meant
GreaterThanOrEqualTo_Strict(a, b) ==
    LET x == IF a.x > b.x THEN a.x ELSE b.x
    IN  a.m * Pow10(x - a.x) > b.m * Pow10(x - b.x)

\* a.greaterThanOrEqualTo(b), a numeric comparison
GreaterThanOrEqualTo(a, b) ==
    LET x == IF a.x > b.x THEN a.x ELSE b.x
    IN  a.m * Pow10(x - a.x) >= b.m * Pow10(x - b.x)

----------------------------------------------------------------------------
(* Decimal.prototype.valueOf(): the string a Decimal turns into when a JS  *)
(* relational operator is applied to it.  Strings are sequences of UTF-16  *)
(* code units.                                                             *)

RECURSIVE Digits(_)
Digits(n) == IF n < 10 THEN <<48 + n>> ELSE Append(Digits(n \div 10), 48 + (n % 10))

ValueOf(d) ==
    LET a    == Abs(d.m)
        p    == Pow10(d.x)
        sign == IF d.m < 0 THEN <<45>> ELSE <<>>
        frac == [i \in 1..d.x |-> 48 + (((a % p) \div Pow10(d.x - i)) % 10)]
    IN  sign \o Digits(a \div p) \o (IF d.x > 0 THEN <<46>> \o frac ELSE <<>>)

\* s < t for two JS strings: code unit by code unit, a proper prefix is smaller
StrLess(s, t) ==
    LET n    == IF Len(s) < Len(t) THEN Len(s) ELSE Len(t)
        diff == {i \in 1..n : s[i] # t[i]}
    IN  IF diff = {} THEN Len(s) < Len(t)
        ELSE LET i == CHOOSE j \in diff : \A k \in diff : j <= k
             IN  s[i] < t[i]

\* a >= b and a <= b on two Decimal objects: both operands go through
\* valueOf() and, being strings, are compared as strings.
JsGreaterOrEqual(a, b) == ~StrLess(ValueOf(a), ValueOf(b))

JsLessOrEqual(a, b) == ~StrLess(ValueOf(b), ValueOf(a))

----------------------------------------------------------------------------
(* The derived value classes. *)

DerivedValue(name, displayName, calcFn) ==
    [name |-> name, displayName |-> displayName, calcFn |-> calcFn,
     class |-> "DerivedValue", isPercent |-> TRUE,
     invertedBreakpoints |-> FALSE, timeConstant |-> 0]

isntPercent(d) == [d EXCEPT !.isPercent = FALSE]

NoBreakpointDerivedValue(name, displayName, calcFn) ==
    [DerivedValue(name, displayName, calcFn) EXCEPT !.class = "NoBreakpointDerivedValue"]

InvertedDerivedValue(name, displayName, calcFn) ==
    [DerivedValue(name, displayName, calcFn) EXCEPT
        !.class = "InvertedDerivedValue", !.invertedBreakpoints = TRUE]

SpeedDerivedValue(baseSpeed, timeConstant) ==
    [DerivedValue(baseSpeed, baseSpeed, "speed") EXCEPT
        !.class = "SpeedDerivedValue", !.isPercent = FALSE,
        !.invertedBreakpoints = TRUE, !.timeConstant = timeConstant]

\* the direction of an ordinary definition, whatever invertedBreakpoints says
lesserBreakpointDirection_Ordinary(d) == -1

lesserBreakpointDirection(d) == IF d.invertedBreakpoints THEN 1 ELSE -1

greaterBreakpointDirection(d) == IF d.invertedBreakpoints THEN -1 ELSE 1

\* The getter: true, except that NoBreakpointDerivedValue's getter evaluates
\* `false;` and returns nothing, i.e. undefined.
hasBreakpoints(d) ==
    IF d.class = "NoBreakpointDerivedValue" THEN "undefined" ELSE "true"

\* ToBoolean of a getter result
Truthy(v) == v = "true"

----------------------------------------------------------------------------
(* Stat and the catalog of StatList. *)

levelMod == 3300

Stat(name, statBase, deltaRate, derivedValueDefns) ==
    [name |-> name, statBase |-> statBase, deltaRate |-> deltaRate,
     derivedValueDefns |-> derivedValueDefns]

StatList ==
    << Stat("Critical Hit", 380, 200,
            << DerivedValue("rate", "Crit Rate", "crit.rate"),
               DerivedValue("bonus", "Bonus Dmg", "crit.bonus"),
               NoBreakpointDerivedValue("edmg", "Expected Dmg", "edmg") >>),
       Stat("Direct Hit", 380, 550,
            << DerivedValue("rate", "DH Hit", "dh.rate"),
               NoBreakpointDerivedValue("bonus", "Bonus Dmg", "dh.bonus"),
               NoBreakpointDerivedValue("edmg", "Expected Dmg", "edmg") >>),
       Stat("Determination", 340, 130,
            << DerivedValue("damage mult", "Damage Multiplier", "mult") >>),
       Stat("Spell/Skill Speed", 380, 130,
            << DerivedValue("mult", "DoT Scalar", "mult"),
               SpeedDerivedValue("1.5s", 1500),
               SpeedDerivedValue("2.0s", 2000),
               SpeedDerivedValue("2.5s", 2500),
               SpeedDerivedValue("2.8s", 2800),
               SpeedDerivedValue("3.0s", 3000),
               SpeedDerivedValue("3.5s", 3500),
               SpeedDerivedValue("4.0s", 4000) >>),
       Stat("Tenacity", 380, 100,
            << DerivedValue("mult", "Damage Multiplier", "mult"),
               InvertedDerivedValue("mit", "Mitigation%", "ten.mit") >>),
       Stat("Piety", 340, 150,
            << isntPercent(DerivedValue("mp", "Additional MP per Tick", "piety.mp")) >>),
       Stat("Defense", 0, 15,
            << DerivedValue("mit", "Mitigation%", "def.mit") >>) >>

\* A statistic that is not in the catalog, handed to the same Stat engine:
\* a constant calcFn, and a non-monotonic one under inverted directions.
ProbeStat ==
    Stat("Probe", 100, 3300,
         << DerivedValue("const", "Constant", "probe.const"),
            InvertedDerivedValue("saw", "Sawtooth", "probe.saw") >>)

Stats == Append(StatList, ProbeStat)

CatalogIds == 1..Len(StatList)

ProbeId == Len(StatList) + 1

\* The calcFn closures, called as calcFn(s, extra, inter); extra is a Decimal.
CalcFn(d, s, extra, inter) ==
    CASE d.calcFn = "crit.rate"   -> DividedByPow10(Plus(extra, Dec(50)), 3)
      [] d.calcFn = "crit.bonus"  -> DividedByPow10(Plus(extra, Dec(400)), 3)
      [] d.calcFn = "edmg"        -> Plus(Dec(1), Times(inter["rate"], inter["bonus"]))
      [] d.calcFn = "dh.rate"     -> DividedByPow10(extra, 3)
      [] d.calcFn = "dh.bonus"    -> [m |-> 25, x |-> 2]
      [] d.calcFn = "mult"        -> DividedByPow10(Plus(extra, Dec(1000)), 3)
      [] d.calcFn = "speed"       ->
            ToDecimalPlacesDown(
                DividedByPow10(
                    Floor(DividedByPow10(
                        Times(Minus(Dec(1000), extra), Dec(d.timeConstant)), 3)),
                    3),
                2)
      [] d.calcFn = "ten.mit"     -> DividedByPow10(Minus(Dec(1000), extra), 3)
      [] d.calcFn = "piety.mp"    -> extra
      [] d.calcFn = "def.mit"     -> DividedByPow10(extra, 2)
      [] d.calcFn = "probe.const" -> Dec(7)
      [] d.calcFn = "probe.saw"   -> Dec(extra.m % 3)

\* truncation toward zero where floor was meant
DividedByFloor_Trunc(n, d) == TruncDiv(n, d)

\* deltaRate.times(delta).dividedBy(levelMod).floor() on integers: the
\* quotient's fraction is a multiple of 1/3300, which the 20 significant
\* digits of dividedBy cannot round up to the next integer, so the result is
\* the floor of the exact quotient.
DividedByFloor(n, d) == n \div d

\* extra(currentValue) inside Stat
Extra(stat, cv) ==
    LET delta == cv - stat.statBase
    IN  Dec(DividedByFloor(stat.deltaRate * delta, levelMod))

----------------------------------------------------------------------------
(* parseInt(text) without a radix, on a text given as a sequence of         *)
(* one-character strings.                                                  *)

DigitChars == <<"0", "1", "2", "3", "4", "5", "6", "7", "8", "9",
                "a", "b", "c", "d", "e", "f">>

UpperChars == <<"A", "B", "C", "D", "E", "F">>

\* The digit value of c, or 99 when c is no digit of any radix up to 16.
DigitValue(c) ==
    IF \E i \in 1..16 : DigitChars[i] = c
    THEN (CHOOSE i \in 1..16 : DigitChars[i] = c) - 1
    ELSE IF \E i \in 1..6 : UpperChars[i] = c
         THEN (CHOOSE i \in 1..6 : UpperChars[i] = c) + 9
         ELSE 99

RECURSIVE TrimLeft(_)
TrimLeft(text) ==
    IF text # <<>> /\ text[1] \in {" ", "\t", "\n"} THEN TrimLeft(Tail(text)) ELSE text

\* The longest prefix of digits of the radix: [any, n]
RECURSIVE ParseDigits(_, _, _, _)
ParseDigits(text, radix, any, n) ==
    IF text # <<>> /\ DigitValue(text[1]) < radix
    THEN ParseDigits(Tail(text), radix, TRUE, n * radix + DigitValue(text[1]))
    ELSE [any |-> any, n |-> n]

ParseInt(text) ==
    LET t1    == TrimLeft(text)
        neg   == t1 # <<>> /\ t1[1] = "-"
        t2    == IF t1 # <<>> /\ t1[1] \in {"+", "-"} THEN Tail(t1) ELSE t1
        hex   == Len(t2) >= 2 /\ t2[1] = "0" /\ t2[2] \in {"x", "X"}
        t3    == IF hex THEN Tail(Tail(t2)) ELSE t2
        r     == ParseDigits(t3, IF hex THEN 16 ELSE 10, FALSE, 0)
    IN  IF r.any THEN [isNaN |-> FALSE, n |-> IF neg THEN -r.n ELSE r.n]
        ELSE [isNaN |-> TRUE, n |-> 0]

----------------------------------------------------------------------------
(* Bounds and inputs. *)

\* '+'/'-' clicks on one statistic after its last typed edit
MaxClicks == 1

\* edit events on a page that shows the whole catalog
MaxListEdits == 1

\* The decimal numeral of a natural number, as a text.
RECURSIVE NatText(_)
NatText(n) ==
    IF n < 10 THEN <<DigitChars[n + 1]>>
    ELSE Append(NatText(n \div 10), DigitChars[(n % 10) + 1])

\* Numbers typed as plain numerals: a grid over 380..5000.
TypedNumbers == {380 + 462 * k : k \in 0..10}

\* Texts typed into the input of a StatBlock.
TypedTexts ==
    { <<"5", "3", "8">>, <<"2", "5", "1", "8">>,
      <<"a", "b", "c">>, <<>>, <<"-", "5">>, <<"4", "0", "0", ".", "9">>,
      <<" ", "0", "x", "3", "E", "8">> }
    \cup {NatText(n) : n \in TypedNumbers}

\* Texts typed on the page that shows the whole catalog.
ListTexts == { <<"3", "9", "5", "p", "x">> }

\* Texts typed when any statistic may be on the page.
ProbeTexts == { <<"7">> }

----------------------------------------------------------------------------
(* The state machine. *)

Cap == 10000

\* breaker++ < 1e4, on the value breaker has before the increment
WithinCap_OffByOne(b) == b <= Cap

WithinCap(b) == b < Cap

NoInter == [n \in {} |-> Dec(0)]

NotRendered == [done |-> FALSE, at |-> 0, list |-> <<>>]

StatIds == 1..Len(Stats)

\* The Stat being rendered and the definition being mapped.
CurId == mounted[si]

CurStat == Stats[CurId]

CurDefn == CurStat.derivedValueDefns[di]

\* intermediates[name] = value
Put(inter, name, value) ==
    [n \in DOMAIN inter \cup {name} |-> IF n = name THEN value ELSE inter[n]]

\* m.mount / the redraw after an event handler: every StatBlock's view runs,
\* in StatList order.
StartRedraw ==
    /\ pc' = "calc"
    /\ si' = 1
    /\ di' = 1
    /\ out' = <<>>
    /\ intermediates' = NoInter
    /\ UNCHANGED <<realValue, lesserBreakpoint, greaterBreakpoint, breaker>>

InitOn(ms) ==
    /\ mounted = ms
    /\ currentValue = [s \in StatIds |-> Stats[s].statBase]
    /\ pc = "calc"
    /\ si = 1
    /\ di = 1
    /\ intermediates = NoInter
    /\ realValue = Dec(0)
    /\ lesserBreakpoint = 0
    /\ greaterBreakpoint = 0
    /\ breaker = 0
    /\ out = <<>>
    /\ view = [s \in StatIds |-> NotRendered]
    /\ typed = [s \in StatIds |-> Stats[s].statBase]
    /\ incs = [s \in StatIds |-> 0]
    /\ decs = [s \in StatIds |-> 0]
    /\ lastEdit = [kind |-> "none", stat |-> 0, text |-> <<>>]

\* One StatBlock of the catalog, whichever.
Init == \E s \in CatalogIds : InitOn(<<s>>)

\* The page as StatList builds it.
InitList == InitOn([i \in CatalogIds |-> i])

\* The Stat engine on any statistic, the one that is not in the catalog included.
InitProbe == \E s \in StatIds : InitOn(<<s>>)

Mounted == {mounted[i] : i \in 1..Len(mounted)}

\* The edit to s has been handled: the list shown for s is stale until the
\* redraw replaces it.
Edited(kind, s, text) ==
    /\ lastEdit' = [kind |-> kind, stat |-> s, text |-> text]
    /\ view' = [view EXCEPT ![s] = NotRendered]
    /\ StartRedraw
    /\ UNCHANGED mounted

\* oninput of the text input
OnInput(s, text) ==
    /\ pc = "idle"
    /\ LET input == ParseInt(text)
           value == IF input.isNaN THEN 0 ELSE input.n
       IN  /\ currentValue' = [currentValue EXCEPT ![s] = value]
           /\ typed' = [typed EXCEPT ![s] = value]
    /\ incs' = [incs EXCEPT ![s] = 0]
    /\ decs' = [decs EXCEPT ![s] = 0]
    /\ Edited("input", s, text)

\* a '-' button that stops at the base value
OnClickMinus_Clamped(s) ==
    /\ pc = "idle"
    /\ incs[s] + decs[s] < MaxClicks
    /\ currentValue' = [currentValue EXCEPT ![s] =
                          IF currentValue[s] - 1 < Stats[s].statBase
                          THEN Stats[s].statBase ELSE currentValue[s] - 1]
    /\ decs' = [decs EXCEPT ![s] = decs[s] + 1]
    /\ UNCHANGED <<typed, incs>>
    /\ Edited("minus", s, <<>>)

\* onclick of the '-' button
OnClickMinus(s) ==
    /\ pc = "idle"
    /\ incs[s] + decs[s] < MaxClicks
    /\ currentValue' = [currentValue EXCEPT ![s] = currentValue[s] - 1]
    /\ decs' = [decs EXCEPT ![s] = decs[s] + 1]
    /\ UNCHANGED <<typed, incs>>
    /\ Edited("minus", s, <<>>)

\* a '+' button whose closure holds the Stat of the last StatBlock created
OnClickPlus_LastStat(s) ==
    /\ pc = "idle"
    /\ incs[s] + decs[s] < MaxClicks
    /\ LET t == mounted[Len(mounted)]
       IN  currentValue' = [currentValue EXCEPT ![t] = currentValue[t] + 1]
    /\ incs' = [incs EXCEPT ![s] = incs[s] + 1]
    /\ UNCHANGED <<typed, decs>>
    /\ Edited("plus", s, <<>>)

\* onclick of the '+' button
OnClickPlus(s) ==
    /\ pc = "idle"
    /\ incs[s] + decs[s] < MaxClicks
    /\ currentValue' = [currentValue EXCEPT ![s] = currentValue[s] + 1]
    /\ incs' = [incs EXCEPT ![s] = incs[s] + 1]
    /\ UNCHANGED <<typed, decs>>
    /\ Edited("plus", s, <<>>)

\* The map callback returns rec: on to the next definition, or the list is
\* complete and the next StatBlock's view runs.
Return(rec, inter) ==
    LET list == Append(out, rec)
        more == di < Len(CurStat.derivedValueDefns)
    IN  /\ realValue' = Dec(0)
        /\ intermediates' = IF more THEN inter ELSE NoInter
        /\ lesserBreakpoint' = 0
        /\ greaterBreakpoint' = 0
        /\ breaker' = 0
        /\ IF more
           THEN /\ di' = di + 1
                /\ out' = list
                /\ pc' = "calc"
                /\ UNCHANGED <<si, view>>
           ELSE /\ di' = 1
                /\ out' = <<>>
                /\ view' = [view EXCEPT ![CurId] =
                              [done |-> TRUE, at |-> currentValue[CurId], list |-> list]]
                /\ IF si < Len(mounted)
                   THEN si' = si + 1 /\ pc' = "calc"
                   ELSE si' = 1 /\ pc' = "idle"

\* The head of the map callback: realValue, intermediates, aboveMinimum.
Calc ==
    /\ pc = "calc"
    /\ LET v  == CurDefn
           cv == currentValue[CurId]
           rv == CalcFn(v, cv, Extra(CurStat, cv), intermediates)
           aboveMinimum == GreaterThanOrEqualTo(Dec(cv), Dec(CurStat.statBase))
       IN  IF Truthy(hasBreakpoints(v)) /\ aboveMinimum
           THEN /\ realValue' = rv
                /\ intermediates' = Put(intermediates, v.name, rv)
                /\ lesserBreakpoint' = cv
                /\ breaker' = 0
                /\ pc' = "lesser"
                /\ UNCHANGED <<si, di, out, view, greaterBreakpoint>>
           ELSE Return([name |-> v.displayName, value |-> rv,
                        isPercent |-> v.isPercent, hasBreakpoints |-> FALSE],
                       Put(intermediates, v.name, rv))
    /\ UNCHANGED <<mounted, currentValue, typed, incs, decs, lastEdit>>

\* One test of the first while loop, and its body or its exit (breaker++ is
\* only seen by the test `< 1e4`; the exit goes on to `breaker = 0`).
Lesser ==
    /\ pc = "lesser"
    /\ LET v == CurDefn
           c == CalcFn(v, lesserBreakpoint, Extra(CurStat, lesserBreakpoint), NoInter)
       IN  IF JsGreaterOrEqual(c, realValue)
              /\ WithinCap(breaker)
           THEN /\ breaker' = breaker + 1
                /\ lesserBreakpoint' =
                      lesserBreakpoint + lesserBreakpointDirection(v)
                /\ UNCHANGED <<pc, greaterBreakpoint>>
           ELSE /\ greaterBreakpoint' = currentValue[CurId]
                /\ breaker' = 0
                /\ pc' = "greater"
                /\ UNCHANGED lesserBreakpoint
    /\ UNCHANGED <<mounted, currentValue, si, di, intermediates, realValue, out,
                   view, typed, incs, decs, lastEdit>>

\* One test of the second while loop, and its body or its exit with the
\* record that has the breakpoints.
Greater ==
    /\ pc = "greater"
    /\ LET v == CurDefn
           c == CalcFn(v, greaterBreakpoint, Extra(CurStat, greaterBreakpoint), NoInter)
       IN  IF JsLessOrEqual(c, realValue) /\ WithinCap(breaker)
           THEN /\ breaker' = breaker + 1
                /\ greaterBreakpoint' =
                      greaterBreakpoint + greaterBreakpointDirection(v)
                /\ UNCHANGED <<pc, si, di, intermediates, realValue, out, view,
                               lesserBreakpoint>>
           ELSE Return([name |-> v.displayName, value |-> realValue,
                        hasBreakpoints |-> TRUE, isPercent |-> v.isPercent,
                        lesserBreakpoint |-> lesserBreakpoint,
                        greaterBreakpoint |-> greaterBreakpoint],
                       intermediates)
    /\ UNCHANGED <<mounted, currentValue, typed, incs, decs, lastEdit>>

\* A step of the redraw (of Stat.derivedValues)
Render == Calc \/ Lesser \/ Greater

Next ==
    \/ Render
    \/ \E s \in Mounted, text \in TypedTexts : OnInput(s, text)
    \/ \E s \in Mounted : OnClickMinus(s)
    \/ \E s \in Mounted : OnClickPlus(s)

Spec == Init /\ [][Next]_vars

RECURSIVE Sum(_, _)
Sum(f, S) ==
    IF S = {} THEN 0
    ELSE LET s == CHOOSE t \in S : TRUE IN f[s] + Sum(f, S \ {s})

\* Edits in effect on the page: the clicks, and the typed values that differ
\* from the base.
EditsInEffect ==
    Sum([s \in StatIds |-> incs[s] + decs[s]
                           + (IF typed[s] # Stats[s].statBase THEN 1 ELSE 0)],
        StatIds)

NextList ==
    \/ Render
    \/ /\ EditsInEffect < MaxListEdits
       /\ \E s \in Mounted, text \in ListTexts : OnInput(s, text)
    \/ /\ EditsInEffect < MaxListEdits
       /\ \E s \in Mounted : OnClickMinus(s)
    \/ /\ EditsInEffect < MaxListEdits
       /\ \E s \in Mounted : OnClickPlus(s)

SpecList == InitList /\ [][NextList]_vars

NextProbe ==
    \/ Render
    \/ \E s \in Mounted, text \in ProbeTexts : OnInput(s, text)
    \/ \E s \in Mounted : OnClickMinus(s)
    \/ \E s \in Mounted : OnClickPlus(s)

SpecProbe == InitProbe /\ [][NextProbe]_vars

----------------------------------------------------------------------------
(* Properties.  They read the lists derivedValues() returned (view) and the *)
(* loop variables, and state arithmetic on integers: a Decimal d is the     *)
(* integer Scaled(d, k) in units of 10^(-k).                                *)

Scaled(d, k) == d.m * Pow10(k - d.x)

\* a < b as numbers
NumLT(a, b) ==
    LET x == IF a.x > b.x THEN a.x ELSE b.x
    IN  Scaled(a, x) < Scaled(b, x)

NumLE(a, b) == ~NumLT(b, a)

Defn(s, i) == Stats[s].derivedValueDefns[i]

\* The definition's value recomputed at the statistic value v, as the
\* searches recompute it.
ValueAt(s, i, v) == CalcFn(Defn(s, i), v, Extra(Stats[s], v), NoInter)

\* floor(n / d) for d > 0, by the remainder
FloorQuot(n, d) == (n - (n % d)) \div d

BreakpointBearing(d) == d.class # "NoBreakpointDerivedValue"

\* The upper end of the statistic values the properties range over.
InRange(s) == view[s].at <= 5000

----------------------------------------------------------------------------
\* C1: for every breakpoint-bearing catalog definition and every rendered
\* value v0 >= statBase, comparing numerically: the value recomputed at
\* lesserBreakpoint is strictly less than realValue and one step back toward
\* v0 it is >= realValue; at greaterBreakpoint it is strictly greater and one
\* step back it is <= realValue.
C1_BreakpointsBracketRealValue ==
    \A s \in CatalogIds :
        (view[s].done /\ InRange(s)) =>
            \A i \in 1..Len(view[s].list) :
                LET r  == view[s].list[i]
                    d  == Defn(s, i)
                IN  r.hasBreakpoints =>
                        /\ NumLT(ValueAt(s, i, r.lesserBreakpoint), r.value)
                        /\ NumLE(r.value,
                                 ValueAt(s, i, r.lesserBreakpoint
                                                 - lesserBreakpointDirection(d)))
                        /\ NumLT(r.value, ValueAt(s, i, r.greaterBreakpoint))
                        /\ NumLE(ValueAt(s, i, r.greaterBreakpoint
                                                 - greaterBreakpointDirection(d)),
                                 r.value)

----------------------------------------------------------------------------
\* The value of definition i at v in millionths; Expected Dmg from the list's
\* own rate and bonus.
ExpectedValue(s, i, list, v) ==
    IF Defn(s, i).calcFn = "edmg"
    THEN 1000000 + Scaled(list[1].value, 3) * Scaled(list[2].value, 3)
    ELSE Scaled(ValueAt(s, i, v), 6)

PlainFields == {"name", "value", "isPercent", "hasBreakpoints"}

\* C2: derivedValues() returns one record per definition, in order, each with
\* the computed value; a record has lesserBreakpoint and greaterBreakpoint
\* (and hasBreakpoints = true) if and only if the definition is
\* breakpoint-bearing and currentValue >= statBase.
C2_OneRecordPerSpec ==
    \A s \in CatalogIds :
        view[s].done =>
            /\ Len(view[s].list) = Len(Stats[s].derivedValueDefns)
            /\ \A i \in 1..Len(view[s].list) :
                LET r == view[s].list[i]
                    d == Defn(s, i)
                    searched == BreakpointBearing(d) /\ view[s].at >= Stats[s].statBase
                IN  /\ r.name = d.displayName
                    /\ r.isPercent = d.isPercent
                    /\ Scaled(r.value, 6) = ExpectedValue(s, i, view[s].list, view[s].at)
                    /\ r.hasBreakpoints = searched
                    /\ DOMAIN r = IF searched
                                  THEN PlainFields \cup {"lesserBreakpoint", "greaterBreakpoint"}
                                  ELSE PlainFields

\* Critical Hit rendered below its base: three plain records, no breakpoints.
C2_Witness ==
    /\ view[1].done
    /\ view[1].at = 379
    /\ Len(view[1].list) = 3
    /\ ~view[1].list[1].hasBreakpoints
    /\ view[1].list[1].value = [m |-> 49, x |-> 3]

----------------------------------------------------------------------------
\* C3: for Critical Hit and Direct Hit, at every value, the 'Expected Dmg'
\* output is 1 + rate * bonus of the rate and bonus output earlier in the
\* same list, themselves computed at that value; at 380 Critical Hit gives
\* 0.05, 0.4, 1.02 and Direct Hit gives 0, 0.25, 1.
C3_ExpectedDmgFromSameList ==
    \A s \in {1, 2} :
        view[s].done =>
            LET l    == view[s].list
                at   == view[s].at
                e    == FloorQuot(Stats[s].deltaRate * (at - Stats[s].statBase), 3300)
            IN  /\ Scaled(l[3].value, 6)
                     = 1000000 + Scaled(l[1].value, 3) * Scaled(l[2].value, 3)
                /\ s = 1 => /\ Scaled(l[1].value, 3) = e + 50
                            /\ Scaled(l[2].value, 3) = e + 400
                /\ s = 2 => /\ Scaled(l[1].value, 3) = e
                            /\ Scaled(l[2].value, 3) = 250
                /\ (s = 1 /\ at = 380) =>
                        /\ l[1].value = [m |-> 5, x |-> 2]
                        /\ l[2].value = [m |-> 4, x |-> 1]
                        /\ l[3].value = [m |-> 102, x |-> 2]
                /\ (s = 2 /\ at = 380) =>
                        /\ l[1].value = [m |-> 0, x |-> 0]
                        /\ l[2].value = [m |-> 25, x |-> 2]
                        /\ l[3].value = [m |-> 1, x |-> 0]

\* Critical Hit rendered at 538: rate 0.059, bonus 0.409, expected 1.024131
C3_Witness ==
    /\ view[1].done
    /\ view[1].at = 538
    /\ view[1].list[3].value = [m |-> 1024131, x |-> 6]

----------------------------------------------------------------------------
\* e = floor(n / d), by the two inequalities
IsFloorOf(e, n, d) == e * d <= n /\ n < (e + 1) * d

ExtraIsFloor(s, v) ==
    LET e == Extra(Stats[s], v)
    IN  /\ e.x = 0
        /\ IsFloorOf(e.m, Stats[s].deltaRate * (v - Stats[s].statBase), levelMod)

\* C4: extra(v) = floor(deltaRate * (v - statBase) / 3300), rounding toward
\* negative infinity, at the current value and at every search candidate;
\* extra(statBase) = 0 and extra(statBase - 1) = -1 for every catalog
\* statistic.  Piety's output, which is extra itself, shows it.
C4_ExtraIsFloor ==
    /\ \A s \in CatalogIds :
        /\ ExtraIsFloor(s, currentValue[s])
        /\ Extra(Stats[s], Stats[s].statBase) = Dec(0)
        /\ Extra(Stats[s], Stats[s].statBase - 1) = Dec(-1)
    /\ pc = "lesser" => ExtraIsFloor(CurId, lesserBreakpoint)
    /\ pc = "greater" => ExtraIsFloor(CurId, greaterBreakpoint)
    /\ view[6].done =>
        /\ view[6].list[1].value.x = 0
        /\ IsFloorOf(view[6].list[1].value.m, 150 * (view[6].at - 340), 3300)

\* Piety rendered one below its base: extra is -1
C4_Witness ==
    /\ view[6].done
    /\ view[6].at = 339
    /\ view[6].list[1].value = [m |-> -1, x |-> 0]

----------------------------------------------------------------------------
SpeedId == 4

SpeedEntries == 2..8

TimeConstants == <<0, 1500, 2000, 2500, 2800, 3000, 3500, 4000>>

SpeedHundredths(v, tc) ==
    FloorQuot(FloorQuot((1000 - FloorQuot(130 * (v - 380), 3300)) * tc, 1000), 10)

\* C5: every Spell/Skill Speed entry with time constant tc has the value
\* floor((1000 - extra) * tc / 1000) / 1000 rounded down to 2 decimal places
\* (in hundredths: floor(floor((1000 - extra) * tc / 1000) / 10)); at 380 it is
\* tc / 1000; and it never increases when the statistic value increases: no
\* candidate above the rendered value gives more, none below gives less.
C5_SpeedValue ==
    /\ view[SpeedId].done =>
        \A i \in SpeedEntries :
            LET r == view[SpeedId].list[i]
            IN  /\ r.value.x <= 2
                /\ Scaled(r.value, 2) >= 0
                /\ Scaled(r.value, 2) = SpeedHundredths(view[SpeedId].at, TimeConstants[i])
                /\ view[SpeedId].at = 380 => Scaled(r.value, 2) * 10 = TimeConstants[i]
                /\ NumLE(ValueAt(SpeedId, i, view[SpeedId].at + 1), r.value)
    /\ (CurId = SpeedId /\ di \in SpeedEntries /\ pc = "lesser") =>
        /\ lesserBreakpoint >= currentValue[SpeedId]
        /\ NumLE(ValueAt(SpeedId, di, lesserBreakpoint), realValue)
    /\ (CurId = SpeedId /\ di \in SpeedEntries /\ pc = "greater") =>
        /\ greaterBreakpoint <= currentValue[SpeedId]
        /\ NumLE(realValue, ValueAt(SpeedId, di, greaterBreakpoint))

\* Spell/Skill Speed rendered at 538 (extra 6): the 2.5s entry is 2.48, the
\* 2.8s entry 2.78
C5_Witness ==
    /\ view[SpeedId].done
    /\ view[SpeedId].at = 538
    /\ view[SpeedId].list[4].value = [m |-> 248, x |-> 2]
    /\ view[SpeedId].list[5].value = [m |-> 278, x |-> 2]

----------------------------------------------------------------------------
\* What each text stands for.
ParsedAs ==
    [text \in TypedTexts \cup ListTexts \cup ProbeTexts |->
        IF \E n \in TypedNumbers : text = NatText(n)
        THEN CHOOSE n \in TypedNumbers : text = NatText(n)
        ELSE CASE text = <<"5", "3", "8">>                 -> 538
               [] text = <<"2", "5", "1", "8">>            -> 2518
               [] text = <<"a", "b", "c">>                 -> 0
               [] text = <<>>                              -> 0
               [] text = <<"-", "5">>                      -> -5
               [] text = <<"4", "0", "0", ".", "9">>       -> 400
               [] text = <<" ", "0", "x", "3", "E", "8">>  -> 1000
               [] text = <<"3", "9", "5", "p", "x">>       -> 395
               [] text = <<"7">>                           -> 7]

\* C6: currentValue is the value of the last typed edit (the parsed integer,
\* 0 for a text that is no number, statBase if nothing was typed) plus the
\* '+' clicks minus the '-' clicks since then; nothing is clamped at statBase
\* or at zero, and no event is rejected.
C6_ValueIsTypedPlusClicks ==
    /\ \A s \in CatalogIds : currentValue[s] = typed[s] + incs[s] - decs[s]
    /\ lastEdit.kind = "input" =>
        /\ typed[lastEdit.stat] = ParsedAs[lastEdit.text]
        /\ currentValue[lastEdit.stat] = ParsedAs[lastEdit.text]
    /\ lastEdit.kind = "none" =>
        \A s \in CatalogIds : typed[s] = Stats[s].statBase /\ incs[s] + decs[s] = 0
    /\ pc = "idle" =>
        \A s \in Mounted :
            /\ \A text \in TypedTexts : ENABLED OnInput(s, text)
            /\ incs[s] + decs[s] < MaxClicks =>
                  ENABLED OnClickMinus(s) /\ ENABLED OnClickPlus(s)

\* "-5" typed into Critical Hit, then '-': the value is -6, below base and zero
C6_Witness ==
    /\ pc = "idle"
    /\ lastEdit.kind = "minus"
    /\ lastEdit.stat = 1
    /\ typed[1] = -5
    /\ currentValue[1] = -6

----------------------------------------------------------------------------
\* C8: for every breakpoint-bearing catalog definition and every rendered
\* value in statBase..5000, both searches stop because the recomputed value
\* has passed realValue, fewer than 10,000 steps away from the value.
C8_CapNeverReached ==
    \A s \in CatalogIds :
        (view[s].done /\ InRange(s)) =>
            \A i \in 1..Len(view[s].list) :
                LET r == view[s].list[i]
                IN  r.hasBreakpoints =>
                        /\ Abs(r.lesserBreakpoint - view[s].at) < 10000
                        /\ Abs(r.greaterBreakpoint - view[s].at) < 10000
                        /\ ~JsGreaterOrEqual(ValueAt(s, i, r.lesserBreakpoint), r.value)
                        /\ ~JsLessOrEqual(ValueAt(s, i, r.greaterBreakpoint), r.value)

----------------------------------------------------------------------------
IsInverted(d) == d.class \in {"InvertedDerivedValue", "SpeedDerivedValue"}

LesserSign(d) == IF IsInverted(d) THEN 1 ELSE -1

\* C10: the direction of a search depends only on whether the definition is
\* inverted: an ordinary definition's lesser search only decrements and its
\* greater search only increments, so lesserBreakpoint < v0 < greaterBreakpoint;
\* for Tenacity's Mitigation% and the Spell/Skill Speed entries the directions
\* are swapped, so greaterBreakpoint < v0 < lesserBreakpoint.  Neither
\* breakpoint equals v0.
C10_DirectionByInversion ==
    /\ \A s \in CatalogIds :
        view[s].done =>
            \A i \in 1..Len(view[s].list) :
                LET r == view[s].list[i]
                    d == Defn(s, i)
                IN  /\ IsInverted(d) <=>
                           \/ (s = 5 /\ d.displayName = "Mitigation%")
                           \/ (s = SpeedId /\ i \in SpeedEntries)
                    /\ r.hasBreakpoints =>
                        IF IsInverted(d)
                        THEN r.greaterBreakpoint < view[s].at /\ view[s].at < r.lesserBreakpoint
                        ELSE r.lesserBreakpoint < view[s].at /\ view[s].at < r.greaterBreakpoint
    /\ pc = "lesser" =>
        lesserBreakpoint = currentValue[CurId] + LesserSign(CurDefn) * breaker
    /\ pc = "greater" =>
        greaterBreakpoint = currentValue[CurId] - LesserSign(CurDefn) * breaker

\* Tenacity rendered at its base: Damage Multiplier 347 < 380 < 413,
\* Mitigation% 413 > 380 > 347
C10_Witness ==
    /\ view[5].done
    /\ view[5].at = 380
    /\ view[5].list[1].lesserBreakpoint < 380
    /\ view[5].list[1].greaterBreakpoint > 380
    /\ view[5].list[2].lesserBreakpoint > 380
    /\ view[5].list[2].greaterBreakpoint < 380

----------------------------------------------------------------------------
\* What a step may change: an edit, a step of the redraw, a list replaced.
C7_Step ==
    /\ (pc = "idle" /\ pc' # "idle") =>
        \A t \in CatalogIds :
            t # lastEdit'.stat => currentValue'[t] = currentValue[t] /\ view'[t] = view[t]
    /\ pc # "idle" => currentValue' = currentValue
    /\ \A t \in CatalogIds : (view[t].done /\ view'[t].done) => view'[t] = view[t]

\* C7: an edit event on one statistic changes only that statistic's
\* currentValue; every other statistic's currentValue and list of derived
\* values and breakpoints stay as they were, also when the redraw computes
\* them again: the list is a function of the statistic's own currentValue.
C7_EditChangesOnlyItsStatistic == [][C7_Step]_vars

\* '+' on Spell/Skill Speed handled and the page redrawn: the other six lists
\* are there, computed at the base values
C7_Witness ==
    /\ pc = "idle"
    /\ lastEdit = [kind |-> "plus", stat |-> SpeedId, text |-> <<>>]
    /\ currentValue[SpeedId] = 381
    /\ \A t \in CatalogIds : view[t].done /\ view[t].at = currentValue[t]
    /\ \A t \in CatalogIds \ {SpeedId} : currentValue[t] = Stats[t].statBase

----------------------------------------------------------------------------
\* The loop counter, the distance covered, and the records of capped searches.
C9_Inv ==
    /\ pc = "lesser" =>
        breaker <= 10000 /\ Abs(lesserBreakpoint - currentValue[CurId]) = breaker
    /\ pc = "greater" =>
        breaker <= 10000 /\ Abs(greaterBreakpoint - currentValue[CurId]) = breaker
    /\ \A s \in StatIds :
        view[s].done =>
            \A i \in 1..Len(view[s].list) :
                LET r == view[s].list[i]
                    d == Defn(s, i)
                IN  (BreakpointBearing(d) /\ view[s].at >= Stats[s].statBase) =>
                        /\ DOMAIN r = PlainFields \cup {"lesserBreakpoint", "greaterBreakpoint"}
                        /\ r.hasBreakpoints = TRUE
                        /\ Abs(r.lesserBreakpoint - view[s].at) <= 10000
                        /\ Abs(r.greaterBreakpoint - view[s].at) <= 10000
                        /\ JsGreaterOrEqual(ValueAt(s, i, r.lesserBreakpoint), r.value) =>
                              r.lesserBreakpoint = view[s].at + 10000 * LesserSign(d)
                        /\ JsLessOrEqual(ValueAt(s, i, r.greaterBreakpoint), r.value) =>
                              r.greaterBreakpoint = view[s].at - 10000 * LesserSign(d)

\* Every iteration counts, and every step of the redraw moves on.
C9_Step ==
    /\ (pc = "lesser" /\ pc' = "lesser") => breaker' = breaker + 1
    /\ (pc = "greater" /\ pc' = "greater") => breaker' = breaker + 1
    /\ pc # "idle" => pc' # pc \/ breaker' # breaker \/ di' # di \/ si' # si

\* C9: for any calcFn and any currentValue >= statBase each search takes at
\* most 10,000 steps, one per loop iteration, and then ends, so
\* |breakpoint - currentValue| <= 10,000; a search that the cap ended returns
\* exactly currentValue + 10,000 * direction, in a record with
\* hasBreakpoints = true and no other field than a normal record has.
C9_SearchEndsWithinCap == []C9_Inv /\ [][C9_Step]_vars

\* The statistic outside the catalog rendered at its base 100: the constant
\* definition's searches end at -9900 and 10100, the sawtooth's lesser search
\* at 10100, all by the cap
C9_Witness ==
    /\ view[ProbeId].done
    /\ view[ProbeId].at = 100
    /\ view[ProbeId].list[1].lesserBreakpoint = -9900
    /\ view[ProbeId].list[1].greaterBreakpoint = 10100
    /\ view[ProbeId].list[2].lesserBreakpoint = 10100
    /\ view[ProbeId].list[2].greaterBreakpoint = 99

====
